---- MODULE Spec2Model ----
(***************************************************************************)
(* Model of udp-balancer.c: configuration parsing, socket setup and the    *)
(* receive / select upstream / send loop of main().                        *)
(***************************************************************************)
EXTENDS Integers, Sequences, FiniteSets, TLC

VARIABLES
    file,      \* the configuration file named on the command line (input)
    ln,        \* parse_config: number of lines read so far
    conf,      \* the static conf struct
    seqnr,     \* the static sent message counter
    pc,        \* position of main()
    sock,      \* state of the socket descriptor
    status,    \* exit status of the process, meaningful when pc = "exit"
    stderr,    \* diagnostic written to stderr by the last step, if any
    pkt,       \* main: receive buffer
    recvlen,   \* main: result of the last recvfrom()
    from,      \* main: sender address filled in by recvfrom()
    sa,        \* main: index into conf.remotes returned by toaddr()
    sendlen,   \* main: result of the last sendto()
    rcvd,      \* history: the datagram delivered by the last recvfrom()
    wire,      \* history: what sendto() was given in this loop iteration
    nrecv,     \* history: number of recvfrom() calls
    nsent,     \* history: number of sendto() calls
    ndisp,     \* history: number of toaddr() calls
    nplain,    \* history: dispatched datagrams without the 0x1e 0x0f magic
    rrlog,     \* history: upstream indices of the dispatched datagrams that
               \*          are not GELF chunks under handle-gelf, in order
    chunks,    \* history: <<message id, upstream index>> of the datagrams
               \*          with the 0x1e 0x0f magic dispatched under handle-gelf
    seqnr0,    \* history: seqnr when the last recvfrom() was called
    crcin,     \* crc8 called on its own: the bytes it is given
    crcout     \* crc8 called on its own: the value returned, -1 before

vars == <<file, ln, conf, seqnr, pc, sock, status, stderr, pkt, recvlen, from,
          sa, sendlen, rcvd, wire, nrecv, nsent, ndisp, nplain, rrlog, chunks,
          seqnr0, crcin, crcout>>

confvars == <<file, ln, conf>>
loopvars == <<pkt, recvlen, from, sa, sendlen>>
histvars == <<rcvd, wire, nrecv, nsent, ndisp, nplain, rrlog, chunks, seqnr0>>
crcvars == <<crcin, crcout>>

(***************************************************************************)
(* Bounds of the model.                                                    *)
(***************************************************************************)
MaxPackets == 6       \* recvfrom() calls explored per run
MaxUpstreams == 3     \* upstream directives in the small configurations
MaxBigUpstreams == 257 \* upstream directives in the large configurations
MaxCrcLen == 3        \* bytes of the messages given to crc8 on its own
MaxCrcPackets == 1    \* chunks received in the runs of crc8

(***************************************************************************)
(* Program constants.                                                      *)
(***************************************************************************)
RemotesCap == 256     \* struct sockaddr_in remotes[256]
Uint8 == 256          \* range of uint8_t (conf.nremotes, crc, remote)
MinPacket == 12       \* if (recvlen < 12)

Min(a, b) == IF a < b THEN a ELSE b

(***************************************************************************)
(* Configuration files.  A line is a keyword and the token after it; a     *)
(* token is missing ("none"), malformed ("bad") or well formed ("ok") with *)
(* its value v (an endpoint id for addresses, the number for buffers).     *)
(***************************************************************************)
Tok(t, v) == [tok |-> t, v |-> v]
Line(kw, arg) == [kw |-> kw, arg |-> arg]

Upstream(i) == Line("upstream", Tok("ok", i))
ListenOk == Line("listen", Tok("ok", 100))

\* lines "upstream <endpoint lo>" .. "upstream <endpoint hi>"
Upstreams(lo, hi) ==
    IF lo > hi THEN <<>> ELSE [i \in 1..(hi - lo + 1) |-> Upstream(lo + i - 1)]

Readable(lines) == [readable |-> TRUE, lines |-> lines]
Unreadable == [readable |-> FALSE, lines |-> <<>>]

\* well formed configurations: optional handle-gelf, optional buffer
\* sizes, a listen directive before or after k upstream directives
GoodFiles ==
    { Readable(<<ListenOk>> \o Upstreams(1, k)) : k \in 1..MaxUpstreams }
    \cup
    { Readable(<<Line("handle-gelf", Tok("none", 0)), ListenOk>>
               \o Upstreams(1, k)) : k \in (1..MaxUpstreams) \ {2} }
    \cup
    { Readable(<<Line("handle-gelf", Tok("none", 0)),
                 Line("send-buffer", Tok("ok", 4096)),
                 Line("", Tok("none", 0)),
                 Line("recv-buffer", Tok("ok", 8192)),
                 Upstream(1), ListenOk, Upstream(2)>>) }

\* configurations that main() must reject
BadFiles ==
    { Unreadable,
      Readable(<<>>),
      Readable(<<ListenOk>>),
      Readable(Upstreams(1, 2)),
      Readable(<<ListenOk, Line("bogus", Tok("none", 0)), Upstream(1)>>),
      Readable(<<Line("listen", Tok("bad", 0)), Upstream(1)>>),
      Readable(<<Line("listen", Tok("none", 0)), Upstream(1)>>),
      Readable(<<ListenOk, Upstream(1), Line("upstream", Tok("bad", 0))>>),
      Readable(<<ListenOk, Line("upstream", Tok("none", 0))>>),
      Readable(<<ListenOk, Upstream(1), Line("send-buffer", Tok("ok", 0))>>),
      Readable(<<ListenOk, Upstream(1), Line("send-buffer", Tok("bad", 0))>>),
      Readable(<<ListenOk, Upstream(1), Line("recv-buffer", Tok("none", 0))>>),
      Readable(<<ListenOk, Upstream(1), Line("recv-buffer", Tok("bad", 0))>>),
      Readable(<<ListenOk>> \o Upstreams(1, RemotesCap)) }

Files == GoodFiles \cup BadFiles

\* numbers of upstreams above 128, up to the most a uint8_t count can hold
PoolSizes == {129, 200, 255}

\* "handle-gelf", "listen" and n upstream directives
PoolFile(n) ==
    Readable(<<Line("handle-gelf", Tok("none", 0)), ListenOk>>
             \o Upstreams(1, n))

PoolFiles == { PoolFile(n) : n \in PoolSizes }

\* configurations with up to MaxBigUpstreams upstream directives
BigFiles ==
    { Readable(<<ListenOk>> \o Upstreams(1, k)) : k \in 0..MaxBigUpstreams }
    \cup
    { Readable(Upstreams(1, k) \o <<ListenOk>>) :
        k \in (MaxBigUpstreams - 2)..MaxBigUpstreams }
    \cup PoolFiles

\* the upstream endpoints of a file, in file order
UpstreamDirectives(f) ==
    SelectSeq(f.lines, LAMBDA l : l.kw = "upstream" /\ l.arg.tok = "ok")

HasListen(f) ==
    \E i \in 1..Len(f.lines) :
        f.lines[i].kw = "listen" /\ f.lines[i].arg.tok = "ok"

\* every line of the file is a directive parse_config accepts
WellFormed(f) ==
    /\ f.readable
    /\ \A i \in 1..Len(f.lines) :
         LET l == f.lines[i] IN
           \/ l.kw \in {"", "handle-gelf"}
           \/ l.kw \in {"listen", "upstream"} /\ l.arg.tok = "ok"
           \/ l.kw \in {"send-buffer", "recv-buffer"}
                /\ l.arg.tok = "ok" /\ l.arg.v # 0

(***************************************************************************)
(* parse_addr: 0 and the filled sockaddr_in for a well formed token, -1    *)
(* otherwise.                                                              *)
(***************************************************************************)
parse_addr(addr, si) ==
    IF addr.tok = "ok"
    THEN [rc |-> 0, si |-> [sin_family |-> "AF_INET", ep |-> addr.v]]
    ELSE [rc |-> -1, si |-> si]

\* a close() that is missing
close_missing(s) == s

\* close(sock)
close(s) == "closed"

ZeroAddr == [sin_family |-> "AF_UNSPEC", ep |-> 0]

\* process exit status of "return r" from main
ExitStatus(r) == r % 256

Msg(m, a) == [msg |-> m, arg |-> a]

(***************************************************************************)
(* The conf struct is zero initialised static storage.                     *)
(***************************************************************************)
ConfInit ==
    [handle_gelf |-> FALSE, send_buffer |-> 0, recv_buffer |-> 0,
     nremotes |-> 0, local |-> ZeroAddr,
     remotes |-> <<>>]

\* conf.remotes[i]: conf.remotes holds the entries written so far, the
\* other entries of the array are still zero
RemoteAt(i) ==
    IF i \in DOMAIN conf.remotes THEN conf.remotes[i] ELSE ZeroAddr

Quiet == Msg("", 0)
NoSend == [sent |-> FALSE, buf |-> <<>>, len |-> 0, to |-> 0]

InitRest ==
    /\ ln = 0
    /\ conf = ConfInit
    /\ seqnr = 0
    /\ pc = "parse"
    /\ sock = "none"
    /\ status = 0
    /\ stderr = Quiet
    /\ pkt = <<>>
    /\ recvlen = 0
    /\ from = 0
    /\ sa = 0
    /\ sendlen = 0
    /\ rcvd = <<>>
    /\ wire = NoSend
    /\ nrecv = 0
    /\ nsent = 0
    /\ ndisp = 0
    /\ nplain = 0
    /\ rrlog = <<>>
    /\ chunks = {}
    /\ seqnr0 = 0
    /\ crcin = <<>>
    /\ crcout = -1

Init == file \in Files /\ InitRest

InitBig == file \in (BigFiles \cup Files) /\ InitRest

\* return r from main() after writing diagnostic m
Exit(r, m) ==
    /\ pc' = "exit"
    /\ status' = ExitStatus(r)
    /\ stderr' = m

(***************************************************************************)
(* parse_config, one step per fgets().  Every failure returns -1 to main,  *)
(* which prints "Failed to parse configuration" and returns -1.            *)
(***************************************************************************)
ParseFail ==
    /\ Exit(-1, Msg("Failed to parse configuration", ln'))
    /\ UNCHANGED <<file, seqnr, sock, loopvars, histvars, crcvars>>

\* fopen() fails
OpenFail ==
    /\ pc = "parse" /\ ln = 0 /\ ~file.readable
    /\ UNCHANGED <<ln, conf>>
    /\ ParseFail

CurLine == file.lines[ln + 1]

MoreLines == pc = "parse" /\ file.readable /\ ln < Len(file.lines)

\* a line without any token
BlankLine ==
    /\ MoreLines /\ CurLine.kw = ""
    /\ ln' = ln + 1
    /\ UNCHANGED <<file, conf, seqnr, pc, sock, status, loopvars, histvars, crcvars>>
    /\ stderr' = Quiet

ListenLine ==
    /\ MoreLines /\ CurLine.kw = "listen"
    /\ ln' = ln + 1
    /\ LET r == parse_addr(CurLine.arg, conf.local) IN
         IF CurLine.arg.tok = "none" \/ r.rc # 0
         THEN /\ conf' = conf
              /\ ParseFail
         ELSE /\ conf' = [conf EXCEPT !.local = r.si]
              /\ stderr' = Quiet
              /\ UNCHANGED <<file, seqnr, pc, sock, status,
                             loopvars, histvars, crcvars>>

\* conf.nremotes++ on a uint8_t
NextNremotes(n) == (n + 1) % Uint8

UpstreamLine ==
    /\ MoreLines /\ CurLine.kw = "upstream"
    /\ ln' = ln + 1
    /\ IF CurLine.arg.tok = "none"
       THEN /\ conf' = conf
            /\ ParseFail
       ELSE LET r == parse_addr(CurLine.arg, RemoteAt(conf.nremotes)) IN
            /\ conf' = [conf EXCEPT
                          !.remotes = (conf.nremotes :> r.si) @@ conf.remotes,
                          !.nremotes = NextNremotes(conf.nremotes)]
            /\ IF r.rc # 0
               THEN ParseFail
               ELSE /\ stderr' = Quiet
                    /\ UNCHANGED <<file, seqnr, pc, sock, status,
                                   loopvars, histvars, crcvars>>

HandleGelfLine ==
    /\ MoreLines /\ CurLine.kw = "handle-gelf"
    /\ ln' = ln + 1
    /\ conf' = [conf EXCEPT !.handle_gelf = TRUE]
    /\ stderr' = Quiet
    /\ UNCHANGED <<file, seqnr, pc, sock, status, loopvars, histvars, crcvars>>

\* strtoul() of the token, 0 when the token is missing or malformed
BufferValue(arg) == IF arg.tok = "ok" THEN arg.v ELSE 0

SendBufferLine ==
    /\ MoreLines /\ CurLine.kw = "send-buffer"
    /\ ln' = ln + 1
    /\ conf' = [conf EXCEPT !.send_buffer = BufferValue(CurLine.arg)]
    /\ IF CurLine.arg.tok # "ok" \/ BufferValue(CurLine.arg) = 0
       THEN ParseFail
       ELSE /\ stderr' = Quiet
            /\ UNCHANGED <<file, seqnr, pc, sock, status,
                           loopvars, histvars, crcvars>>

RecvBufferLine ==
    /\ MoreLines /\ CurLine.kw = "recv-buffer"
    /\ ln' = ln + 1
    /\ conf' = [conf EXCEPT !.recv_buffer = BufferValue(CurLine.arg)]
    /\ IF CurLine.arg.tok # "ok" \/ BufferValue(CurLine.arg) = 0
       THEN ParseFail
       ELSE /\ stderr' = Quiet
            /\ UNCHANGED <<file, seqnr, pc, sock, status,
                           loopvars, histvars, crcvars>>

UnknownLine ==
    /\ MoreLines
    /\ CurLine.kw \notin {"", "listen", "upstream", "handle-gelf",
                          "send-buffer", "recv-buffer"}
    /\ ln' = ln + 1
    /\ conf' = conf
    /\ ParseFail

\* fgets() returns NULL: fclose, return 0
ParseDone ==
    /\ pc = "parse" /\ file.readable /\ ln = Len(file.lines)
    /\ pc' = "check"
    /\ stderr' = Quiet
    /\ UNCHANGED <<confvars, seqnr, sock, status, loopvars, histvars, crcvars>>

parse_config ==
    \/ OpenFail
    \/ BlankLine
    \/ ListenLine
    \/ UpstreamLine
    \/ HandleGelfLine
    \/ SendBufferLine
    \/ RecvBufferLine
    \/ UnknownLine
    \/ ParseDone

(***************************************************************************)
(* main after parse_config: the listen and upstream checks.                *)
(***************************************************************************)
NoListen == conf.local.sin_family = "AF_UNSPEC"
NoUpstream == conf.nremotes = 0

\* main without the listen address check
CheckConfNoListenCheck ==
    /\ pc = "check"
    /\ IF NoUpstream
       THEN Exit(-1, Msg("No upstream addresses defined", 0))
       ELSE /\ pc' = "socket"
            /\ stderr' = Quiet
            /\ UNCHANGED status
    /\ UNCHANGED <<confvars, seqnr, sock, loopvars, histvars, crcvars>>

\* main without the upstream check
CheckConfNoUpstreamCheck ==
    /\ pc = "check"
    /\ IF NoListen
       THEN Exit(-1, Msg("No listen address defined", 0))
       ELSE /\ pc' = "socket"
            /\ stderr' = Quiet
            /\ UNCHANGED status
    /\ UNCHANGED <<confvars, seqnr, sock, loopvars, histvars, crcvars>>

CheckConf ==
    /\ pc = "check"
    /\ IF NoListen
       THEN Exit(-1, Msg("No listen address defined", 0))
       ELSE IF NoUpstream
       THEN Exit(-1, Msg("No upstream addresses defined", 0))
       ELSE /\ pc' = "socket"
            /\ stderr' = Quiet
            /\ UNCHANGED status
    /\ UNCHANGED <<confvars, seqnr, sock, loopvars, histvars, crcvars>>

(***************************************************************************)
(* socket() and the two optional setsockopt() calls; a setsockopt failure  *)
(* is reported and ignored.                                                *)
(***************************************************************************)
SocketFail ==
    /\ pc = "socket"
    /\ Exit(-1, Msg("socket()", 0))
    /\ UNCHANGED <<confvars, seqnr, sock, loopvars, histvars, crcvars>>

SocketOk ==
    /\ pc = "socket"
    /\ sock' = "open"
    /\ pc' = "bind"
    /\ \E sndfail \in {b \in BOOLEAN : b => conf.send_buffer # 0},
          rcvfail \in {b \in BOOLEAN : b => conf.recv_buffer # 0} :
         stderr' = IF rcvfail THEN Msg("setsockopt(SO_RCVBUF)", 0)
                   ELSE IF sndfail THEN Msg("setsockopt(SO_SNDBUF)", 0)
                   ELSE Quiet
    /\ UNCHANGED <<confvars, seqnr, status, loopvars, histvars, crcvars>>

BindFail ==
    /\ pc = "bind"
    /\ sock' = close(sock)
    /\ Exit(-1, Msg("bind", conf.local.ep))
    /\ UNCHANGED <<confvars, seqnr, loopvars, histvars, crcvars>>

BindOk ==
    /\ pc = "bind"
    /\ sock' = "bound"
    /\ pc' = "recv"
    /\ stderr' = Quiet
    /\ UNCHANGED <<confvars, seqnr, status, loopvars, histvars, crcvars>>

Startup ==
    \/ parse_config
    \/ CheckConf
    \/ SocketFail
    \/ SocketOk
    \/ BindFail
    \/ BindOk

(***************************************************************************)
(* Arithmetic on uint8_t values.                                           *)
(***************************************************************************)
RECURSIVE BitXor(_, _)
BitXor(a, b) ==
    IF a = 0 THEN b
    ELSE IF b = 0 THEN a
    ELSE ((a + b) % 2) + 2 * BitXor(a \div 2, b \div 2)

RECURSIVE BitAnd(_, _)
BitAnd(a, b) ==
    IF a = 0 \/ b = 0 THEN 0
    ELSE ((a % 2) * (b % 2)) + 2 * BitAnd(a \div 2, b \div 2)

\* a ^ b tabulated over the uint8_t values
xor8 == [a \in 0..(Uint8 - 1) |-> [b \in 0..(Uint8 - 1) |-> BitXor(a, b)]]

(***************************************************************************)
(* crc8: for each of the first len bytes of msg, xor the byte into crc and *)
(* run the inner loop eight times.                                         *)
(***************************************************************************)
\* the inner loop testing the top bit before the shift
crc8_bit_test_first(crc) ==
    LET shifted == (crc * 2) % Uint8
    IN  IF BitAnd(crc, 128) # 0 THEN BitXor(shifted, 129) ELSE shifted

\* one pass of the inner loop: crc = (crc << 1); if (crc & 0x80) crc ^= 0x81;
crc8_bit(crc) ==
    LET shifted == (crc * 2) % Uint8
    IN  IF BitAnd(shifted, 128) # 0 THEN BitXor(shifted, 129) ELSE shifted

\* crc8_bit tabulated over the uint8_t values
crc8_step == [c \in 0..(Uint8 - 1) |-> crc8_bit(c)]

RECURSIVE crc8_bits(_, _)
\* for (bit = 8; bit > 0; bit--)
crc8_bits(crc, bit) ==
    IF bit > 0 THEN crc8_bits(crc8_step[crc], bit - 1) ELSE crc

\* the inner loop tabulated over the uint8_t values
crc8_byte == [c \in 0..(Uint8 - 1) |-> crc8_bits(c, 8)]

RECURSIVE crc8_from(_, _, _)
\* while (len--) { crc ^= (uint8_t)*msg++; ... }
crc8_from(crc, msg, len) ==
    IF len = 0 THEN crc
    ELSE crc8_from(crc8_byte[xor8[crc][Head(msg)]], Tail(msg), len - 1)

crc8(msg, len) == crc8_from(0, msg, len)

(***************************************************************************)
(* toaddr: the index into conf.remotes and the new value of seqnr.         *)
(***************************************************************************)
GelfMagic == <<30, 15>>      \* "\036\017"

\* the magic bytes as the README gives them
HasMagicReadme(payload) == SubSeq(payload, 1, 2) = <<31, 15>>

\* !memcmp(payload, "\036\017", 2)
HasMagic(payload) == SubSeq(payload, 1, 2) = GelfMagic

\* payload + n
Offset(payload, n) == SubSeq(payload, n + 1, Len(payload))

\* toaddr hashing the eight bytes at payload + 3
toaddr_off_by_one(payload) ==
    IF conf.handle_gelf /\ HasMagic(payload)
    THEN [remote |-> (crc8(Offset(payload, 3), 8) % conf.nremotes) % Uint8,
          seqnr |-> seqnr]
    ELSE [remote |-> (seqnr % conf.nremotes) % Uint8,
          seqnr |-> seqnr + 1]

\* toaddr advancing seqnr for hash routed datagrams too
toaddr_count_all(payload) ==
    IF conf.handle_gelf /\ HasMagic(payload)
    THEN [remote |-> (crc8(Offset(payload, 2), 8) % conf.nremotes) % Uint8,
          seqnr |-> seqnr + 1]
    ELSE [remote |-> (seqnr % conf.nremotes) % Uint8,
          seqnr |-> seqnr + 1]

\* toaddr hashing nine bytes instead of eight
toaddr_hash_nine(payload) ==
    IF conf.handle_gelf /\ HasMagic(payload)
    THEN [remote |-> (crc8(Offset(payload, 2), 9) % conf.nremotes) % Uint8,
          seqnr |-> seqnr]
    ELSE [remote |-> (seqnr % conf.nremotes) % Uint8,
          seqnr |-> seqnr + 1]

\* toaddr hashing every datagram with the magic, handle-gelf or not
toaddr_ignore_flag(payload) ==
    IF HasMagic(payload)
    THEN [remote |-> (crc8(Offset(payload, 2), 8) % conf.nremotes) % Uint8,
          seqnr |-> seqnr]
    ELSE [remote |-> (seqnr % conf.nremotes) % Uint8,
          seqnr |-> seqnr + 1]

\* toaddr that never advances seqnr
toaddr_no_increment(payload) ==
    IF conf.handle_gelf /\ HasMagic(payload)
    THEN [remote |-> (crc8(Offset(payload, 2), 8) % conf.nremotes) % Uint8,
          seqnr |-> seqnr]
    ELSE [remote |-> (seqnr % conf.nremotes) % Uint8,
          seqnr |-> seqnr]

toaddr(payload) ==
    IF conf.handle_gelf /\ HasMagic(payload)
    THEN [remote |-> (crc8(Offset(payload, 2), 8) % conf.nremotes) % Uint8,
          seqnr |-> seqnr]
    ELSE [remote |-> (seqnr % conf.nremotes) % Uint8,
          seqnr |-> seqnr + 1]

\* addstr returning its buffer empty
addstr_blank(a) == 0

\* addstr of an endpoint
addstr(a) == a.ep

(***************************************************************************)
(* Datagrams that arrive on the listening socket.                          *)
(***************************************************************************)
Senders == {201, 202}

MessageIds ==
    { <<0, 0, 0, 0, 0, 0, 0, 1>>,
      <<128, 64, 0, 0, 0, 0, 0, 3>> }

Trailers == { <<0, 0>>, <<1, 9, 9>> }

\* datagrams starting with the GELF chunk magic
GelfChunks == { GelfMagic \o id \o t : id \in MessageIds, t \in Trailers }

\* datagrams of at least 12 bytes that do not start with it
PlainDatagrams ==
    { <<31, 15, 0, 0, 0, 0, 0, 0, 0, 1, 0, 0>>,
      <<30, 0, 0, 0, 0, 0, 0, 0, 0, 1, 0, 0>>,
      <<1, 2, 0, 0, 0, 0, 0, 0, 0, 1, 0, 0>>,
      <<1, 2, 128, 64, 0, 0, 0, 0, 0, 3, 9, 9, 9>> }

\* datagrams of less than 12 bytes
ShortDatagrams ==
    { <<>>,
      <<30, 15, 0, 0, 0, 0, 0, 0, 0, 1>>,
      <<1, 2, 3, 4, 5, 6, 7, 8, 9, 10, 11>> }

Datagrams == GelfChunks \cup PlainDatagrams \cup ShortDatagrams

BUFFER_SIZE == 65536

\* recvfrom() stores at most sizeof(pkt) bytes of datagram d at the start
\* of buf and leaves the bytes behind them as they were
Stored(buf, d) ==
    LET n == Min(Len(d), BUFFER_SIZE)
    IN  SubSeq(d, 1, n) \o SubSeq(buf, n + 1, Len(buf))

\* a length check that only covers the ten bytes toaddr reads
BadPacketHeaderOnly(len) == len < 10

\* if (recvlen < 12)
BadPacket(len) == len < MinPacket

(***************************************************************************)
(* The loop of main, one step per system call.                             *)
(***************************************************************************)
\* recvfrom() fails: report and break
RecvFail ==
    /\ pc = "recv" /\ nrecv < MaxPackets
    /\ nrecv' = nrecv + 1
    /\ recvlen' = -1
    /\ \E a \in Senders \cup {0} :
         /\ from' = a
         /\ stderr' = Msg("recvfrom", a)
    /\ pc' = "close"
    /\ UNCHANGED <<confvars, seqnr, sock, status, pkt, sa, sendlen,
                   rcvd, nsent, ndisp, nplain, rrlog, chunks, crcvars>>
    /\ wire' = NoSend
    /\ seqnr0' = seqnr

\* recvfrom() delivers a datagram shorter than 12 bytes: report, continue
RecvShort ==
    /\ pc = "recv" /\ nrecv < MaxPackets
    /\ \E d \in Datagrams, a \in Senders :
         /\ pkt' = Stored(pkt, d)
         /\ recvlen' = Min(Len(d), BUFFER_SIZE)
         /\ BadPacket(recvlen')
         /\ from' = a
         /\ rcvd' = d
         /\ stderr' = Msg("recvfrom: bad packet", a)
    /\ nrecv' = nrecv + 1
    /\ pc' = "recv"
    /\ UNCHANGED <<confvars, seqnr, sock, status, sa, sendlen,
                   nsent, ndisp, nplain, rrlog, chunks, crcvars>>
    /\ wire' = NoSend
    /\ seqnr0' = seqnr

\* recvfrom() delivers datagram d of at least 12 bytes from sender a:
\* sa = toaddr(pkt)
Dispatch(d, a) ==
    /\ pc = "recv" /\ nrecv < MaxPackets
    /\ pkt' = Stored(pkt, d)
    /\ recvlen' = Min(Len(d), BUFFER_SIZE)
    /\ ~BadPacket(recvlen')
    /\ from' = a
    /\ rcvd' = d
    /\ LET t == toaddr(Stored(pkt, d)) IN
         /\ sa' = t.remote
         /\ seqnr' = t.seqnr
         /\ rrlog' = IF conf.handle_gelf /\ HasMagic(d)
                     THEN rrlog ELSE Append(rrlog, t.remote)
         /\ nplain' = IF HasMagic(d) THEN nplain ELSE nplain + 1
         /\ chunks' = IF conf.handle_gelf /\ HasMagic(d)
                      THEN chunks \cup {<<SubSeq(d, 3, 10), t.remote>>}
                      ELSE chunks
    /\ nrecv' = nrecv + 1
    /\ ndisp' = ndisp + 1
    /\ pc' = "sendto"
    /\ stderr' = Quiet
    /\ wire' = NoSend
    /\ seqnr0' = seqnr
    /\ UNCHANGED <<confvars, sock, status, sendlen, nsent, crcvars>>

RecvDispatch == \E d \in Datagrams, a \in Senders : Dispatch(d, a)

\* sendto() given the whole buffer instead of the received length
SendArgsWholeBuffer == [buf |-> pkt, len |-> Len(pkt), to |-> sa]

\* the arguments of sendto(sock, pkt, recvlen, 0, sa, sizeof(*sa))
SendArgs == [buf |-> pkt, len |-> recvlen, to |-> sa]

\* results of sendto() for len bytes: error, partial send, complete send
SendResults(len) == {-1, len - 1, len}

\* break instead of continue after a failed or partial send
AfterSendErrorBreak == "close"

\* the send tried again after a failed or partial send
AfterSendErrorRetry == "sendto"

\* where the loop goes after a failed or partial send: continue
AfterSendError == "recv"

SendTo ==
    /\ pc = "sendto"
    /\ wire' = [sent |-> TRUE, buf |-> SubSeq(SendArgs.buf, 1, SendArgs.len),
                len |-> SendArgs.len, to |-> SendArgs.to]
    /\ nsent' = nsent + 1
    /\ \E r \in SendResults(recvlen) :
         /\ sendlen' = r
         /\ IF r # recvlen
            THEN /\ stderr' = Msg("sendto", addstr(RemoteAt(sa)))
                 /\ pc' = AfterSendError
            ELSE /\ stderr' = Quiet
                 /\ pc' = "recv"
    /\ UNCHANGED <<confvars, seqnr, sock, status, pkt, recvlen, from, sa,
                   rcvd, nrecv, ndisp, nplain, rrlog, chunks, seqnr0, crcvars>>

\* after the loop: close(sock); return 0;
CloseAndReturn ==
    /\ pc = "close"
    /\ sock' = close(sock)
    /\ pc' = "exit"
    /\ status' = ExitStatus(0)
    /\ stderr' = Quiet
    /\ UNCHANGED <<confvars, seqnr, loopvars, histvars, crcvars>>

Relay ==
    \/ RecvFail
    \/ RecvShort
    \/ RecvDispatch
    \/ SendTo
    \/ CloseAndReturn

Next == Startup \/ Relay

Spec == Init /\ [][Next]_vars

(***************************************************************************)
(* crc8 on its own and in toaddr with more than 128 upstreams.  The run    *)
(* starts where main() enters the loop after parsing PoolFile(n).          *)
(***************************************************************************)
\* conf after parse_config has read PoolFile(n)
PoolConf(n) ==
    [handle_gelf |-> TRUE, send_buffer |-> 0, recv_buffer |-> 0,
     nremotes |-> n, local |-> parse_addr(ListenOk.arg, ZeroAddr).si,
     remotes |-> [i \in 0..(n - 1) |->
                    parse_addr(Upstream(i + 1).arg, ZeroAddr).si]]

\* byte values on both sides of bit 7
ByteSamples == {0, 1, 127, 128, 129, 255}

RECURSIVE BytesOfLen(_)
BytesOfLen(n) ==
    IF n = 0 THEN { <<>> }
    ELSE { Append(m, b) : m \in BytesOfLen(n - 1), b \in ByteSamples }

\* the messages given to crc8: 1..MaxCrcLen bytes
CrcInputs == UNION { BytesOfLen(n) : n \in 1..MaxCrcLen }

\* a GELF chunk whose message id starts with m: magic, id, sequence bytes
ChunkOf(m) ==
    GelfMagic \o [i \in 1..8 |-> IF i <= Len(m) THEN m[i] ELSE 0] \o <<0, 1>>

InitCrc ==
    /\ \E n \in PoolSizes :
         /\ file = PoolFile(n)
         /\ conf = PoolConf(n)
         /\ ln = Len(file.lines)
    /\ seqnr = 0
    /\ pc = "recv"
    /\ sock = "bound"
    /\ status = 0
    /\ stderr = Quiet
    /\ pkt = <<>> /\ recvlen = 0 /\ from = 0 /\ sa = 0 /\ sendlen = 0
    /\ rcvd = <<>> /\ wire = NoSend
    /\ nrecv = 0 /\ nsent = 0 /\ ndisp = 0 /\ nplain = 0
    /\ rrlog = <<>> /\ chunks = {} /\ seqnr0 = 0
    /\ crcin \in CrcInputs
    /\ crcout = -1

\* crc8(msg, len) called on the whole message
Crc8Call ==
    /\ crcout = -1
    /\ crcout' = crc8(crcin, Len(crcin))
    /\ UNCHANGED <<confvars, seqnr, pc, sock, status, stderr, loopvars,
                   histvars, crcin>>

\* the chunk made of the message arrives
ChunkDispatch ==
    /\ nrecv < MaxCrcPackets
    /\ \E a \in Senders : Dispatch(ChunkOf(crcin), a)

NextCrc ==
    \/ Crc8Call
    \/ ChunkDispatch
    \/ SendTo

SpecCrc == InitCrc /\ [][NextCrc]_vars

SpecStartup == InitBig /\ [][Startup]_vars
(***************************************************************************)
(* Properties.                                                             *)
(***************************************************************************)
InLoop == pc \in {"recv", "sendto"}

\* C1: with handle-gelf enabled, any two dispatched datagrams that start
\* with the GELF chunk magic and agree on bytes 2..9 were given the same
\* upstream index, whatever was processed between them.
C1_SameIdSameUpstream ==
    \A p \in chunks, q \in chunks : p[1] = q[1] => p[2] = q[2]

\* two chunks of one message and a round robin datagram were dispatched
\* among three upstreams
C1_Witness ==
    /\ conf.handle_gelf /\ conf.nremotes = 3
    /\ ndisp = 3 /\ nplain = 1 /\ seqnr = 1
    /\ Cardinality(chunks) = 1

\* C2 as stated: the k-th dispatched datagram without the magic goes to
\* upstream (k - 1) mod N.
C2_PlainDatagramsCycle ==
    (pc = "sendto" /\ ~HasMagic(rcvd)) => sa = (nplain - 1) % conf.nremotes

\* C2 amended: the k-th dispatched datagram that is not hash routed (no
\* magic, or handle-gelf disabled) goes to upstream (k - 1) mod N.
C2_RoundRobinCycle ==
    \A i \in 1..Len(rrlog) : rrlog[i] = (i - 1) % conf.nremotes

\* three upstreams, handle-gelf disabled, six datagrams dispatched
C2_Witness ==
    /\ ~conf.handle_gelf /\ conf.nremotes = 3
    /\ rrlog = <<0, 1, 2, 0, 1, 2>>

\* C3: after a failed recvfrom() the process exits with a non-zero status.
C3_RecvFailureExitsNonZero ==
    (pc = "exit" /\ recvlen < 0) => status # 0

\* C4: a short datagram and a failed or partial send take the loop back to
\* recvfrom() with the socket still bound; the loop is only left from
\* recvfrom(), when it fails.
C4_SoftErrorsContinue ==
    [][/\ (pc = "recv" /\ nrecv' # nrecv /\ recvlen' >= 0
             /\ recvlen' < MinPacket)
          => (pc' = "recv" /\ sock' = "bound")
       /\ (pc = "sendto" /\ sendlen' # recvlen)
          => (pc' = "recv" /\ sock' = "bound")
       /\ (InLoop /\ ~InLoop')
          => (pc = "recv" /\ recvlen' < 0)]_vars

\* a datagram is dispatched after an earlier send failed
C4_Witness ==
    /\ pc = "sendto" /\ nsent > 0 /\ sendlen = -1
    /\ sock = "bound"

\* C5: a received datagram shorter than 12 bytes is not passed to toaddr,
\* is not sent and leaves seqnr alone.
C5_ShortNeverDispatched ==
    [][(pc = "recv" /\ nrecv' # nrecv /\ recvlen' >= 0
          /\ Len(rcvd') < 12)
       => /\ ndisp' = ndisp
          /\ nsent' = nsent
          /\ seqnr' = seqnr
          /\ ~wire'.sent
          /\ pc' = "recv"]_vars

\* an empty datagram was discarded after round robin traffic
C5_Witness ==
    /\ pc = "recv" /\ nrecv > 1 /\ rcvd = <<>> /\ recvlen = 0
    /\ stderr.msg = "recvfrom: bad packet"
    /\ seqnr > 0

\* C6: what sendto() is given is byte for byte the datagram recvfrom()
\* delivered in this iteration, with its length.
C6_RelayedVerbatim ==
    wire.sent => (wire.buf = rcvd /\ wire.len = Len(rcvd))

\* a hash routed datagram was sent from a buffer that holds bytes of a
\* longer, earlier datagram behind it
C6_Witness ==
    /\ wire.sent /\ conf.handle_gelf /\ HasMagic(rcvd)
    /\ Len(pkt) > Len(rcvd)

\* the CRC-8 of C7: per byte, xor it into the register, then eight times
\* shift left and xor 0x81 when the bit shifted out of position 7 was set
StdCrc8Bit(crc) ==
    LET shifted == (crc * 2) % 256
    IN  IF crc \div 128 = 1 THEN xor8[shifted][129] ELSE shifted

StdCrc8Step == [c \in 0..255 |-> StdCrc8Bit(c)]

StdCrc8Byte ==
    [c \in 0..255 |->
        StdCrc8Step[StdCrc8Step[StdCrc8Step[StdCrc8Step[
        StdCrc8Step[StdCrc8Step[StdCrc8Step[StdCrc8Step[c]]]]]]]]]

RECURSIVE StdCrc8From(_, _)
StdCrc8From(crc, msg) ==
    IF msg = <<>> THEN crc
    ELSE StdCrc8From(StdCrc8Byte[xor8[crc][Head(msg)]], Tail(msg))

StdCrc8(msg) == StdCrc8From(0, msg)

\* C7: crc8 over bytes 2..9 of a dispatched datagram is the standard CRC-8
\* with polynomial 0x81.
C7_Crc8IsStandard ==
    pc = "sendto" => crc8(Offset(pkt, 2), 8) = StdCrc8(SubSeq(pkt, 3, 10))

StartupErrors ==
    { "Failed to parse configuration", "No listen address defined",
      "No upstream addresses defined", "socket()", "bind" }

\* C8: a startup failure ends the process with a non-zero status before
\* anything was received or sent, and the loop is only entered with a
\* configuration that parses and has a listen and an upstream directive,
\* on a bound socket.
C8_StartupFailureExits ==
    /\ (pc = "exit" /\ stderr.msg \in StartupErrors)
         => (status # 0 /\ nrecv = 0 /\ nsent = 0 /\ ndisp = 0)
    /\ stderr.msg \in StartupErrors => pc = "exit"
    /\ pc \in {"recv", "sendto", "close"}
         => /\ WellFormed(file)
            /\ HasListen(file)
            /\ UpstreamDirectives(file) # <<>>
            /\ sock = "bound"

\* the process ended because no listen directive was given
C8_Witness ==
    /\ pc = "exit" /\ stderr.msg = "No listen address defined"
    /\ status = 255 /\ UpstreamDirectives(file) # <<>>

\* C9: the process never ends with the socket open.
C9_SocketClosedAtExit ==
    pc = "exit" => sock \in {"none", "closed"}

\* the process ended after a failed recvfrom() with the socket closed
C9_Witness ==
    pc = "exit" /\ recvlen < 0 /\ nrecv > 1 /\ sock = "closed"

\* C10: once a configuration with a listen directive and k upstream
\* directives, 1 <= k <= 256, is parsed, conf.nremotes = k, entry i of
\* conf.remotes is the i-th upstream directive, and main goes on to create
\* the socket.
C10_AllUpstreamsHeld ==
    LET ups == UpstreamDirectives(file)
        k == Len(ups)
    IN  (/\ pc \notin {"parse", "check"}
         /\ stderr.msg # "Failed to parse configuration"
         /\ WellFormed(file) /\ HasListen(file)
         /\ k >= 1 /\ k <= RemotesCap)
        => /\ conf.nremotes = k
           /\ \A i \in 0..(k - 1) : RemoteAt(i).ep = ups[i + 1].arg.v
           /\ stderr.msg # "No upstream addresses defined"
\* the affinity marker 0x1E 0x0F
Marker == <<30, 15>>

\* the datagram received in this iteration is hash routed by definition:
\* affinity mode is on and it starts with the marker
Affine(d) == conf.handle_gelf /\ SubSeq(d, 1, 2) = Marker

\* checksum of bytes 2..9 of d, modulo the number of upstreams
HashIndex(d) == crc8(SubSeq(d, 3, 10), 8) % conf.nremotes

\* the loop is back at recvfrom() after a short datagram or after a
\* failed or partial send
SoftErrorEnd ==
    /\ pc = "recv" /\ nrecv > 0 /\ recvlen >= 0
    /\ \/ recvlen < 12
       \/ wire.sent /\ sendlen # recvlen

\* conf.remotes and conf.nremotes are what the upstream directives say
UpstreamSetIntact ==
    LET ups == UpstreamDirectives(file) IN
    /\ conf.nremotes = Len(ups)
    /\ \A i \in 0..(Len(ups) - 1) : RemoteAt(i).ep = ups[i + 1].arg.v

\* C11 as stated: after an iteration that ends in a soft error seqnr has
\* the value it had when recvfrom() was called, and the upstream set is
\* untouched.
C11_SoftErrorKeepsCounter ==
    SoftErrorEnd => (seqnr = seqnr0 /\ UpstreamSetIntact)

\* C11 amended: the failed send and the discard themselves change neither
\* seqnr nor conf; after the iteration the upstream set is untouched and
\* seqnr is what it was when recvfrom() was called, plus one when the
\* datagram was dispatched by round robin.
C11_SoftErrorKeepsDispatch ==
    [][/\ (pc = "sendto" \/ (pc = "recv" /\ pc' = "recv"))
          => (seqnr' = seqnr /\ conf' = conf)
       /\ SoftErrorEnd'
          => /\ UpstreamSetIntact'
             /\ seqnr' = seqnr0' + (IF recvlen' >= 12 /\ ~Affine(rcvd)'
                                    THEN 1 ELSE 0)]_vars

\* a round robin datagram whose send failed
C11_Witness ==
    /\ SoftErrorEnd /\ wire.sent /\ sendlen = -1
    /\ seqnr = seqnr0 + 1 /\ seqnr > 1

\* C12: the upstream of a hash routed datagram is a function of its first
\* ten bytes and N: it is the checksum of bytes 2..9 modulo N, and toaddr
\* gives the same upstream, with the counter as it is now, to every
\* datagram with the same first ten bytes.
C12_HashDependsOnHeaderOnly ==
    (pc = "sendto" /\ Affine(rcvd))
    => /\ sa = HashIndex(SubSeq(rcvd, 1, 10))
       /\ \A d \in Datagrams :
            (Len(d) >= 12 /\ SubSeq(d, 1, 10) = SubSeq(rcvd, 1, 10))
            => toaddr(d).remote = sa

\* a 13 byte chunk from the second sender is hash routed after round robin
\* traffic, to an upstream that is not the round robin one
C12_Witness ==
    /\ pc = "sendto" /\ Affine(rcvd) /\ Len(rcvd) = 13 /\ from = 202
    /\ seqnr > 0 /\ conf.nremotes = 3
    /\ sa # seqnr % conf.nremotes

\* the dispatch of this iteration took the hash branch: the counter was
\* not advanced and the index is the checksum modulo N
HashRouted ==
    pc = "sendto" /\ seqnr = seqnr0 /\ sa = HashIndex(rcvd)

C14_IndexInRange ==
    /\ pc \in {"recv", "sendto", "close"} => conf.nremotes >= 1
    /\ pc = "sendto" => (sa >= 0 /\ sa <= conf.nremotes - 1)
    /\ wire.sent => (wire.to >= 0 /\ wire.to <= conf.nremotes - 1)
    /\ (pc = "sendto" /\ conf.nremotes = 1) => sa = 0

\* with one upstream a chunk with a non-zero checksum goes to upstream 0
C14_Witness ==
    /\ pc = "sendto" /\ conf.nremotes = 1 /\ Affine(rcvd)
    /\ crc8(SubSeq(rcvd, 3, 10), 8) > 0 /\ sa = 0

\* number of datagrams dispatched to upstream i by round robin
Dispatched(i) == Cardinality({k \in 1..Len(rrlog) : rrlog[k] = i})

\* C15: with handle-gelf disabled, or as long as no chunk was dispatched,
\* the numbers of datagrams dispatched to any two upstreams differ by at
\* most one.
C15_EvenFlows ==
    (~conf.handle_gelf \/ chunks = {})
    => \A i \in 0..(conf.nremotes - 1), j \in 0..(conf.nremotes - 1) :
         Dispatched(i) - Dispatched(j) <= 1

\* five datagrams, some of them with the magic, spread over three upstreams
C15_Witness ==
    /\ ~conf.handle_gelf /\ conf.nremotes = 3
    /\ ndisp = 5 /\ nplain = 3 /\ Len(rrlog) = 5
    /\ Dispatched(0) = 2 /\ Dispatched(1) = 2 /\ Dispatched(2) = 1

C17_CounterCountsRoundRobin ==
    /\ seqnr = Len(rrlog)
    /\ pc \in {"parse", "check", "socket", "bind"} => seqnr = 0
    /\ nrecv = 0 => seqnr = 0

\* under handle-gelf two of four dispatched datagrams were hash routed and
\* a short datagram or a failed receive was seen
C17_Witness ==
    /\ conf.handle_gelf /\ seqnr = 2 /\ ndisp = 4 /\ nrecv > ndisp
    /\ Cardinality(chunks) > 0

\* C18: a receive only begins when every dispatched datagram was handed to
\* sendto(); a datagram of at least 12 bytes is dispatched once, in the
\* step that receives it; the one sendto() that follows is given that
\* datagram and the upstream toaddr returned, and whatever its result the
\* loop goes back to recvfrom().
C18_OneDispatchOneSend ==
    [][/\ nrecv' # nrecv => (pc = "recv" /\ nsent = ndisp)
       /\ (nrecv' # nrecv /\ recvlen' >= 12)
          => (ndisp' = ndisp + 1 /\ nsent' = nsent /\ pc' = "sendto")
       /\ ndisp' # ndisp => (nrecv' = nrecv + 1 /\ recvlen' >= 12)
       /\ nsent' # nsent
          => /\ pc = "sendto" /\ pc' = "recv"
             /\ nsent' = nsent + 1 /\ nsent' = ndisp
             /\ wire'.to = sa /\ wire'.buf = rcvd
             /\ sa' = sa /\ pkt' = pkt]_vars

\* a partial send was not repeated: the loop is receiving again and as
\* many sends as dispatches were made
C18_Witness ==
    /\ pc = "recv" /\ wire.sent /\ sendlen = recvlen - 1
    /\ nsent = 2 /\ ndisp = 2 /\ nrecv = 3

\* C19: every step that ends the process during startup, every failed
\* recvfrom(), every short datagram and every failed or partial send
\* writes a diagnostic; the one for a short datagram carries the sender,
\* the one for a send the endpoint of the upstream it was sent to.
C19_EveryErrorReported ==
    [][/\ (pc' = "exit" /\ pc \notin {"close", "exit"})
          => stderr'.msg \in StartupErrors
       /\ (pc = "recv" /\ nrecv' # nrecv /\ recvlen' < 0)
          => stderr'.msg = "recvfrom"
       /\ (pc = "recv" /\ nrecv' # nrecv /\ recvlen' >= 0 /\ recvlen' < 12)
          => stderr' = Msg("recvfrom: bad packet", from')
       /\ (pc = "sendto" /\ sendlen' # recvlen)
          => stderr' = Msg("sendto",
                           UpstreamDirectives(file)[sa + 1].arg.v)]_vars

\* a failed send to the third upstream was reported with its endpoint
C19_Witness ==
    /\ pc = "recv" /\ wire.sent /\ sendlen = -1 /\ sa = 2
    /\ stderr = Msg("sendto", 3)
\* the messages that differ from m at most in bit 7 of their bytes
SameLow7(m) ==
    { x \in CrcInputs :
        Len(x) = Len(m) /\ \A i \in 1..Len(m) : x[i] % 128 = m[i] % 128 }

\* C20: what crc8 returns is in 0..127 and is what it returns for every
\* message that differs only in the top bits of its bytes; with more than
\* 128 upstreams a hash routed datagram never goes to an index above 127.
C20_Crc8SevenBits ==
    /\ crcout # -1
       => /\ crcout >= 0 /\ crcout <= 127
          /\ \A x \in SameLow7(crcin) : crc8(x, Len(x)) = crcout
    /\ (pc = "sendto" /\ Affine(rcvd) /\ conf.nremotes > 128)
       => (sa >= 0 /\ sa <= 127)
    /\ (wire.sent /\ Affine(rcvd) /\ conf.nremotes > 128) => wire.to <= 127

\* crc8 was called on bytes with the top bit set and the chunk with that
\* id was sent to one of 255 upstreams
C20_Witness ==
    /\ crcin = <<129, 255, 128>> /\ crcout > 0
    /\ crcout = crc8(<<1, 127, 0>>, 3)
    /\ wire.sent /\ wire.to = sa /\ sa > 0 /\ sa <= 127
    /\ conf.nremotes = 255 /\ Affine(rcvd) /\ SubSeq(rcvd, 3, 5) = crcin

\* parse_config leaves PoolConf(n) in conf when it has read PoolFile(n)
PoolConfParsed ==
    (pc = "recv" /\ file \in PoolFiles)
    => /\ conf = PoolConf(Len(UpstreamDirectives(file)))
       /\ ln = Len(file.lines)
====
